---- MODULE Spec2Model ----
(***************************************************************************)
(* The poker hand engine (PokerGameEngine, PotManager, HandEvaluator) as a *)
(* state machine.  One engine, one room.  A handler of the engine is an    *)
(* async function: it runs without interruption up to an await on the      *)
(* store and is resumed later, so every handler is one action up to its    *)
(* await and one action for the part that runs after it.                   *)
(***************************************************************************)
EXTENDS Integers, Sequences, FiniteSets, Bags, TLC

\* ---- program constants (PokerGameEngine.ts:48-51) ----
TURN_TIME_SECONDS == 30
SMALL_BLIND == 10
BIG_BLIND == 20
STARTING_STACK == 1500
DECK_SIZE == 52

\* ---- bounds of the model ----
\* hands played before the model stops starting new ones
MaxHands == 1
\* handlers suspended at an await on the store at the same time
MaxPending == 2
\* pot distributions of one hand (a hand completed more than once)
MaxDistributions == 2

\* seated users; userId and seat position coincide, and the players map is
\* filled in ascending seat order (the controller reads ORDER BY position)
Users == {0, 1, 2}
\* indexes the constructor's Math.random() picks the dealer from
DealerIndexes == {0}
\* "total to" amounts a client sends with game:action:raise
RaiseAmounts == {100, 5000}
\* outcomes of HandEvaluator.evaluateHand, as an ordered strength
HandStrengths == {1, 2}
\* timer readings at which client messages are considered
SubmitTimes == {TURN_TIME_SECONDS}
\* users whose client may stay silent until the turn timer expires
SilentUsers == {2}

ActionTypes == {"fold", "check", "call", "raise", "all_in"}

VARIABLES
    players,               \* gameState.players: userId -> PlayerState
    handNumber,
    dealerPosition,
    smallBlindPosition,
    bigBlindPosition,
    currentPlayerPosition,
    currentStreet,
    pot,
    currentBet,
    boardCards,            \* number of board cards (the cards themselves in SpecCards)
    deck,                  \* number of cards left in the deck (the cards in SpecCards)
    isHandActive,
    timer,                 \* the interval of startTurnTimer and its closure
    pending,               \* bag of handlers suspended at an await
    startTimeouts,         \* startHand calls scheduled and not yet run
    handValue,             \* evaluateHand of each player for this deal; 0 = not yet evaluated
                           \* (a strength; the HandRank itself in SpecEval)
    emitted,               \* events emitted by the last step
    cardsSeen,             \* <<socket, owner>>: socket received owner's hole cards this hand
    handStartChips,        \* sum of stacks when startHand began
    distributions,         \* pot distributions of this hand, in order, with the amountWon recorded
    actionsThisTurn,       \* actions applied since the turn was started
    submitted              \* the message of the player to act handled by the last step, if any

engineVars == <<players, handNumber, dealerPosition, smallBlindPosition,
                bigBlindPosition, currentPlayerPosition, currentStreet, pot,
                currentBet, boardCards, deck, isHandActive>>
ghostVars == <<handValue, cardsSeen, handStartChips, distributions, actionsThisTurn>>
vars == <<engineVars, timer, pending, startTimeouts, ghostVars, emitted, submitted>>

\* ---- helpers ----
RECURSIVE SumOver(_, _)
SumOver(f, S) ==
    IF S = {} THEN 0
    ELSE LET x == CHOOSE y \in S : TRUE IN f[x] + SumOver(f, S \ {x})

RECURSIVE SeqSum(_)
SeqSum(s) == IF s = <<>> THEN 0 ELSE Head(s) + SeqSum(Tail(s))

Min(a, b) == IF a < b THEN a ELSE b

\* Array.prototype.sort((a, b) => a - b) of a set of distinct numbers
RECURSIVE SortAsc(_)
SortAsc(S) ==
    IF S = {} THEN <<>>
    ELSE LET m == CHOOSE x \in S : \A y \in S : x <= y
         IN <<m>> \o SortAsc(S \ {m})

\* Array.prototype.indexOf, 0-based, -1 when absent
IndexOf(s, x) ==
    IF \E i \in 1..Len(s) : s[i] = x
    THEN (CHOOSE i \in 1..Len(s) : s[i] = x) - 1
    ELSE -1

\* 0-based element of a sequence
At(s, i) == s[i + 1]

\* a rotation that always lands on the first position
FirstPosition(S, x) == CHOOSE p \in S : \A q \in S : p <= q

\* the first sorted position greater than x, else the first one
NextPosition(S, x) ==
    IF \E p \in S : p > x
    THEN CHOOSE p \in S : p > x /\ \A q \in S : q > x => p <= q
    ELSE CHOOSE p \in S : \A q \in S : p <= q

Stacks == [u \in Users |-> players[u].stack]
TotalStacks == SumOver(Stacks, Users)

\* this.timer = null; ticks counts the firings of the interval since it was armed
NoTimer == [on |-> FALSE, timeRemaining |-> 0, userId |-> 0, ticks |-> 0]

\* the last step handled no message of the player to act
NoMessage == [userId |-> 0, type |-> "", amount |-> 0, accepted |-> FALSE]

\* the players at a position: one, or none (undefined)
getPlayerAtPosition(position) == {u \in Users : u = position}

getActivePlayers(ps) == {u \in Users : ps[u].isActive /\ ~ps[u].isFolded}

\* a big blind seated next to the dealer
bigBlindIndexNextToDealer(dealerIndex, n) == (dealerIndex + 1) % n

\* the indexes of the blinds among the n sorted positions
smallBlindIndex(dealerIndex, n) == (dealerIndex + 1) % n
bigBlindIndex(dealerIndex, n) == (dealerIndex + 2) % n

\* constructor: every player starts with STARTING_STACK, the dealer is random
\* among dealerIndexes
InitWith(dealerIndexes) ==
    /\ players = [u \in Users |->
                    [stack |-> STARTING_STACK, currentBet |-> 0, holeCards |-> FALSE,
                     isActive |-> TRUE, isFolded |-> FALSE, hasActed |-> FALSE]]
    /\ handNumber = 0
    /\ \E dealerIndex \in dealerIndexes :
         LET sortedPositions == SortAsc(Users)
             n == Len(sortedPositions)
         IN /\ dealerPosition = At(sortedPositions, dealerIndex)
            /\ smallBlindPosition = At(sortedPositions, smallBlindIndex(dealerIndex, n))
            /\ bigBlindPosition = At(sortedPositions, bigBlindIndex(dealerIndex, n))
            /\ currentPlayerPosition =
                   At(sortedPositions, (bigBlindIndex(dealerIndex, n) + 1) % n)
    /\ currentStreet = "preflop"
    /\ pot = 0
    /\ currentBet = 0
    /\ boardCards = 0
    /\ deck = 0
    /\ isHandActive = FALSE
    /\ timer = NoTimer
    /\ pending = EmptyBag
    /\ startTimeouts = 1
    /\ handValue = [u \in Users |-> 0]
    /\ emitted = {}
    /\ cardsSeen = {}
    /\ handStartChips = 0
    /\ distributions = <<>>
    /\ actionsThisTurn = 0
    /\ submitted = NoMessage

Init == InitWith(DealerIndexes)

\* ---- continuations: the rest of a handler after its await ----
Cont(k, u, a) == [k |-> k, userId |-> u, action |-> a]
ActCont(u, a) == Cont("act", u, a)
StreetCont == Cont("street", 0, "")
WinCont(how) == Cont("win", 0, how)
StartCont == Cont("start", 0, "")

Suspend(c) == pending (+) SetToBag({c})
Resume(c) == pending (-) SetToBag({c})
NumPending == BagCardinality(pending)

\* ---- events ----
Ev(name, to, u, info) == [ev |-> name, to |-> to, userId |-> u, info |-> info, n |-> 0]
EvN(name, to, u, n) == [ev |-> name, to |-> to, userId |-> u, info |-> "", n |-> n]
ToRoom == "room"

\* ---- startTurnTimer / stopTurnTimer ----
\* the armed timer for the player at position pos (none when nobody sits there)
startTurnTimer(pos) ==
    IF getPlayerAtPosition(pos) = {} THEN NoTimer
    ELSE [on |-> TRUE, timeRemaining |-> TURN_TIME_SECONDS,
          userId |-> CHOOSE u \in getPlayerAtPosition(pos) : TRUE, ticks |-> 0]

TurnStarted(pos) ==
    {EvN("game:turn:started", ToRoom, u, TURN_TIME_SECONDS) : u \in getPlayerAtPosition(pos)}

\* ---- startHand, up to its first await ----
PostBlind(ps, position, blind) ==
    IF getPlayerAtPosition(position) = {} THEN ps
    ELSE LET u == CHOOSE x \in getPlayerAtPosition(position) : TRUE
             amount == Min(blind, ps[u].stack)
         IN [ps EXCEPT ![u].stack = @ - amount, ![u].currentBet = amount]

BlindPaid(ps, position, blind) ==
    IF getPlayerAtPosition(position) = {} THEN 0
    ELSE Min(blind, ps[CHOOSE x \in getPlayerAtPosition(position) : TRUE].stack)

ResetForHand(ps) ==
    [u \in Users |-> [ps[u] EXCEPT !.currentBet = 0, !.holeCards = FALSE,
                                   !.isFolded = FALSE, !.hasActed = FALSE,
                                   !.isActive = (ps[u].stack > 0)]]

DealHoleCards(ps) ==
    [u \in Users |-> [ps[u] EXCEPT !.holeCards = (ps[u].isActive /\ ~ps[u].isFolded)]]

\* startHand while fewer than maxHands hands have been started
StartHandUpTo(maxHands) ==
    /\ startTimeouts > 0
    /\ handNumber < maxHands
    /\ NumPending < MaxPending
    /\ LET reset == ResetForHand(players)
           sb == PostBlind(reset, smallBlindPosition, SMALL_BLIND)
           bb == PostBlind(sb, bigBlindPosition, BIG_BLIND)
           dealt == DealHoleCards(bb)
       IN /\ players' = dealt
          /\ pot' = BlindPaid(reset, smallBlindPosition, SMALL_BLIND)
                    + BlindPaid(sb, bigBlindPosition, BIG_BLIND)
          /\ deck' = DECK_SIZE - 2 * Cardinality({u \in Users : dealt[u].holeCards})
    /\ startTimeouts' = startTimeouts - 1
    /\ handNumber' = handNumber + 1
    /\ isHandActive' = TRUE
    /\ currentStreet' = "preflop"
    /\ boardCards' = 0
    /\ currentBet' = BIG_BLIND
    /\ pending' = Suspend(StartCont)
    /\ handValue' = [u \in Users |-> 0]
    /\ cardsSeen' = {}
    /\ handStartChips' = TotalStacks
    /\ distributions' = <<>>
    /\ emitted' = {}
    /\ submitted' = NoMessage
    /\ UNCHANGED <<dealerPosition, smallBlindPosition, bigBlindPosition,
                   currentPlayerPosition, timer, actionsThisTurn>>

StartHand == StartHandUpTo(MaxHands)

\* the sockets joined to room:<roomId>: one per seated user
RoomSockets == Users

\* io.to(room).emit('game:cards:dealt', {userId, holeCards}) for every dealt player
CardsDealt(ps) == {<<socket, owner>> \in RoomSockets \X Users : ps[owner].holeCards}

\* startHand after the hand and hole cards are persisted
ResumeStart ==
    /\ BagIn(StartCont, pending)
    /\ pending' = Resume(StartCont)
    /\ LET sortedPositions == SortAsc(getActivePlayers(players))
           bigBlindAt == IndexOf(sortedPositions, bigBlindPosition)
           firstToActIndex == (bigBlindAt + 1) % Len(sortedPositions)
       IN /\ Len(sortedPositions) > 0
          /\ currentPlayerPosition' = At(sortedPositions, firstToActIndex)
    /\ cardsSeen' = cardsSeen \cup CardsDealt(players)
    /\ timer' = startTurnTimer(currentPlayerPosition')
    /\ actionsThisTurn' = 0
    /\ submitted' = NoMessage
    /\ emitted' = {EvN("game:hand:started", ToRoom, 0, handNumber)}
                  \cup TurnStarted(currentPlayerPosition')
    /\ UNCHANGED <<players, handNumber, dealerPosition, smallBlindPosition,
                   bigBlindPosition, currentStreet, pot, currentBet, boardCards,
                   deck, isHandActive, startTimeouts, handValue, handStartChips,
                   distributions>>

\* ---- handlePlayerAction, up to its await ----
\* what the switch does to the acting player u, the pot and the current bet;
\* err is the message of the Error thrown, "" when none is thrown
Outcome(err, stopped, ps, p, cb, type) ==
    [err |-> err, timerStopped |-> stopped, players |-> ps, pot |-> p,
     currentBet |-> cb, actionType |-> type]

Rejected(err, stopped) == Outcome(err, stopped, players, pot, currentBet, "")

Fold(u) ==
    Outcome("", TRUE, [players EXCEPT ![u].isFolded = TRUE, ![u].hasActed = TRUE],
            pot, currentBet, "fold")

\* a check that also puts a small blind into the pot
CheckPays(u) ==
    IF players[u].currentBet < currentBet
    THEN Rejected("Cannot check, must call or fold", TRUE)
    ELSE Outcome("", TRUE, [players EXCEPT ![u].hasActed = TRUE, ![u].stack = @ - SMALL_BLIND],
                 pot + SMALL_BLIND, currentBet, "check")

Check(u) ==
    IF players[u].currentBet < currentBet
    THEN Rejected("Cannot check, must call or fold", TRUE)
    ELSE Outcome("", TRUE, [players EXCEPT ![u].hasActed = TRUE], pot, currentBet, "check")

\* a call whose chips leave the stack and never reach the pot
CallWithoutPot(u) ==
    LET callAmount == currentBet - players[u].currentBet
        allIn == callAmount > players[u].stack
        actionAmount == IF allIn THEN players[u].stack ELSE callAmount
    IN Outcome("", TRUE,
               [players EXCEPT ![u].stack = @ - actionAmount,
                               ![u].currentBet = @ + actionAmount,
                               ![u].hasActed = TRUE],
               pot, currentBet,
               IF allIn THEN "all_in" ELSE "call")

Call(u) ==
    LET callAmount == currentBet - players[u].currentBet
        allIn == callAmount > players[u].stack
        actionAmount == IF allIn THEN players[u].stack ELSE callAmount
    IN Outcome("", TRUE,
               [players EXCEPT ![u].stack = @ - actionAmount,
                               ![u].currentBet = @ + actionAmount,
                               ![u].hasActed = TRUE],
               pot + actionAmount, currentBet,
               IF allIn THEN "all_in" ELSE "call")

\* a raise that leaves hasActed as it is
KeepHasActed(ps, u) == ps

\* hasActed = false for every other player that has not folded
ReopenAfterRaise(ps, u) ==
    [p \in Users |-> IF p # u /\ ~ps[p].isFolded
                     THEN [ps[p] EXCEPT !.hasActed = FALSE] ELSE ps[p]]

\* the check of a raise amount: true when the raise is refused
RaiseTooLow(amount) == amount = 0 \/ amount < currentBet * 2

Raise(u, amount) ==
    IF RaiseTooLow(amount) THEN Rejected("Raise amount too low", TRUE)
    ELSE
    LET raiseAmount == amount - players[u].currentBet
        allIn == raiseAmount > players[u].stack
        actionAmount == IF allIn THEN players[u].stack ELSE raiseAmount
        moved == IF allIn
                 THEN [players EXCEPT ![u].stack = 0,
                                      ![u].currentBet = @ + actionAmount,
                                      ![u].hasActed = TRUE]
                 ELSE [players EXCEPT ![u].stack = @ - actionAmount,
                                      ![u].currentBet = amount,
                                      ![u].hasActed = TRUE]
    IN Outcome("", TRUE, ReopenAfterRaise(moved, u), pot + actionAmount,
               IF allIn THEN currentBet ELSE amount,
               IF allIn THEN "all_in" ELSE "raise")

\* hasActed = false for every other player that has not folded and has chips
ReopenAfterAllIn(ps, u) ==
    [p \in Users |-> IF p # u /\ ~ps[p].isFolded /\ ps[p].stack > 0
                     THEN [ps[p] EXCEPT !.hasActed = FALSE] ELSE ps[p]]

\* an all-in that commits the chips and leaves them in the stack
AllInKeepsStack(u) ==
    LET actionAmount == players[u].stack
        moved == [players EXCEPT ![u].currentBet = @ + actionAmount,
                                 ![u].hasActed = TRUE]
        isRaise == moved[u].currentBet > currentBet
    IN Outcome("", TRUE,
               IF isRaise THEN ReopenAfterAllIn(moved, u) ELSE moved,
               pot + actionAmount,
               IF isRaise THEN moved[u].currentBet ELSE currentBet,
               "all_in")

AllIn(u) ==
    LET actionAmount == players[u].stack
        moved == [players EXCEPT ![u].currentBet = @ + actionAmount,
                                 ![u].stack = 0,
                                 ![u].hasActed = TRUE]
        isRaise == moved[u].currentBet > currentBet
    IN Outcome("", TRUE,
               IF isRaise THEN ReopenAfterAllIn(moved, u) ELSE moved,
               pot + actionAmount,
               IF isRaise THEN moved[u].currentBet ELSE currentBet,
               "all_in")

\* a validation that leaves out the turn check
ValidateNoTurn(u) ==
    IF ~isHandActive THEN "No active hand"
    ELSE IF ~players[u].isActive \/ players[u].isFolded THEN "Player is not active"
    ELSE ""

\* the validation at the head of handlePlayerAction: the Error thrown, or ""
Validate(u) ==
    IF ~isHandActive THEN "No active hand"
    ELSE IF getPlayerAtPosition(currentPlayerPosition) # {u} THEN "Not your turn"
    ELSE IF ~players[u].isActive \/ players[u].isFolded THEN "Player is not active"
    ELSE ""

handlePlayerAction(u, type, amount) ==
    IF Validate(u) # "" THEN Rejected(Validate(u), FALSE)
    ELSE CASE type = "fold" -> Fold(u)
           [] type = "check" -> Check(u)
           [] type = "call" -> Call(u)
           [] type = "raise" -> Raise(u, amount)
           [] OTHER -> AllIn(u)

\* the state after the synchronous part of handlePlayerAction with outcome r
ApplyOutcome(u, r) ==
    /\ players' = r.players
    /\ pot' = r.pot
    /\ currentBet' = r.currentBet
    /\ timer' = IF r.timerStopped THEN NoTimer ELSE timer
    /\ pending' = IF r.err = "" THEN Suspend(ActCont(u, r.actionType)) ELSE pending
    /\ actionsThisTurn' = IF r.err = "" THEN actionsThisTurn + 1 ELSE actionsThisTurn
    /\ UNCHANGED <<handNumber, dealerPosition, smallBlindPosition, bigBlindPosition,
                   currentPlayerPosition, currentStreet, boardCards, deck,
                   isHandActive, startTimeouts, handValue, cardsSeen,
                   handStartChips, distributions>>

\* a client's game:action:* message: the socket handler calls handlePlayerAction
\* and sends the Error it throws to the submitting socket only
SubmitAction(u, type, amount) ==
    /\ NumPending < MaxPending
    /\ LET r == handlePlayerAction(u, type, amount)
       IN /\ ApplyOutcome(u, r)
          /\ submitted' = IF Validate(u) = ""
                          THEN [userId |-> u, type |-> type, amount |-> amount,
                                accepted |-> r.err = ""]
                          ELSE NoMessage
          /\ emitted' = IF r.err = "" THEN {}
                        ELSE {Ev("game:error", "socket", u, r.err)}

\* one firing of the setInterval callback of startTurnTimer; when the reading
\* is at most atMost it runs handleTimeout, which folds the player through
\* handlePlayerAction
TimerCallback(atMost) ==
    /\ timer.on
    /\ NumPending < MaxPending
    /\ submitted' = NoMessage
    /\ LET timeRemaining == timer.timeRemaining - 1
           tick == EvN("game:turn:tick", ToRoom, 0, timeRemaining)
       IN IF timeRemaining <= atMost
          THEN LET r == handlePlayerAction(timer.userId, "fold", 0)
               IN /\ ApplyOutcome(timer.userId, [r EXCEPT !.timerStopped = TRUE])
                  /\ emitted' = IF r.err = "" THEN {tick}
                                ELSE {tick, Ev("game:error", ToRoom, 0,
                                               "Error processing timeout")}
          ELSE /\ timer' = [timer EXCEPT !.timeRemaining = timeRemaining,
                                         !.ticks = @ + 1]
               /\ emitted' = {tick}
               /\ UNCHANGED <<engineVars, pending, startTimeouts, ghostVars>>

TimerTick == TimerCallback(0)

\* ---- PotManager ----
\* the loop of calculateSidePots over the remaining bet levels
RECURSIVE SidePotsFrom(_, _, _)
SidePotsFrom(ps, betLevels, previousBetLevel) ==
    IF betLevels = <<>> THEN <<>>
    ELSE LET betLevel == Head(betLevels)
             eligiblePlayers == {u \in Users : ps[u].currentBet >= betLevel /\ ~ps[u].isFolded}
             playersAtThisLevel == Cardinality({u \in Users : ps[u].currentBet >= betLevel})
             potAmount == (betLevel - previousBetLevel) * playersAtThisLevel
         IN IF eligiblePlayers = {}
            THEN SidePotsFrom(ps, Tail(betLevels), previousBetLevel)
            ELSE (IF potAmount > 0
                  THEN <<[amount |-> potAmount, eligiblePlayers |-> eligiblePlayers]>>
                  ELSE <<>>)
                 \o SidePotsFrom(ps, Tail(betLevels), betLevel)

calculateSidePots(ps) ==
    SidePotsFrom(ps, SortAsc({ps[u].currentBet : u \in {v \in Users : ps[v].currentBet > 0}}), 0)

\* a split that drops the remainder
WinnerShareNoRemainder(p, n, i) == p \div n

\* the share of the winner at 0-based index i of n winners of pot p
WinnerShare(p, n, i) == IF i = 0 THEN (p \div n) + (p % n) ELSE p \div n

\* distributePot: stacks after pot p is split among the sequence winners
distributePot(p, winners, stacks) ==
    [u \in Users |->
        IF IndexOf(winners, u) >= 0
        THEN stacks[u] + WinnerShare(p, Len(winners), IndexOf(winners, u))
        ELSE stacks[u]]

\* winners.filter(w => pot.eligiblePlayers.includes(w))
RECURSIVE FilterSeq(_, _)
FilterSeq(s, S) ==
    IF s = <<>> THEN <<>>
    ELSE (IF Head(s) \in S THEN <<Head(s)>> ELSE <<>>) \o FilterSeq(Tail(s), S)

\* the winners a side pot is paid to
EligibleWinners(sidePot, winners) == FilterSeq(winners, sidePot.eligiblePlayers)

RECURSIVE distributeSidePots(_, _, _)
distributeSidePots(sidePots, winners, stacks) ==
    IF sidePots = <<>> THEN stacks
    ELSE LET eligibleWinners == EligibleWinners(Head(sidePots), winners)
         IN distributeSidePots(Tail(sidePots), winners,
                IF Len(eligibleWinners) > 0
                THEN distributePot(Head(sidePots).amount, eligibleWinners, stacks)
                ELSE stacks)

\* ---- HandEvaluator.findWinners over evaluated hands hv ----
findWinners(S, ps, hv) ==
    LET activePlayers == {u \in S : ~ps[u].isFolded /\ ps[u].holeCards}
        best == {u \in activePlayers : \A v \in activePlayers : hv[u] >= hv[v]}
    IN SortAsc(best)

\* ---- isBettingRoundComplete ----
\* a round test that does not exempt the players without chips
isBettingRoundCompleteNoAllIn(ps, cb) ==
    \A u \in getActivePlayers(ps) : ps[u].hasActed /\ ps[u].currentBet >= cb

\* a round test that looks at the bets only
isBettingRoundCompleteBetsOnly(ps, cb) ==
    \A u \in getActivePlayers(ps) : ~(ps[u].stack > 0 /\ ps[u].currentBet < cb)

isBettingRoundComplete(ps, cb) ==
    \A u \in getActivePlayers(ps) :
        /\ ~(ps[u].stack > 0 /\ ~ps[u].hasActed)
        /\ ~(ps[u].stack > 0 /\ ps[u].currentBet < cb)

\* a fold-out that pays the winner the street's current bet and not the pot
WinByFoldBet(winner) == [players EXCEPT ![winner].stack = @ + currentBet]

\* the players after the last player standing is paid: winner.stack += pot
WinByFold(winner) == [players EXCEPT ![winner].stack = @ + pot]

\* the amountWon of every winner record of a showdown
AmountWon(p, n) == p \div n

\* ---- determineWinner, up to its first await ----
\* rest: the handlers still suspended; ev: the events the caller emitted
determineWinner(rest, ev) ==
    LET activePlayers == getActivePlayers(players) IN
    /\ Cardinality(activePlayers) > 0 => Len(distributions) < MaxDistributions
    /\ timer' = NoTimer
    /\ emitted' = ev
    /\ submitted' = NoMessage
    /\ UNCHANGED <<handNumber, dealerPosition, smallBlindPosition, bigBlindPosition,
                   currentPlayerPosition, currentStreet, pot, currentBet, boardCards,
                   deck, startTimeouts, cardsSeen, handStartChips, actionsThisTurn>>
    /\ IF Cardinality(activePlayers) = 0
       THEN /\ isHandActive' = FALSE
            /\ pending' = rest
            /\ UNCHANGED <<players, handValue, distributions>>
       ELSE IF Cardinality(activePlayers) = 1
       THEN LET winner == CHOOSE u \in activePlayers : TRUE
            IN /\ players' = WinByFold(winner)
               /\ pending' = rest (+) SetToBag({WinCont("fold")})
               /\ distributions' = Append(distributions,
                      [how |-> "fold", pot |-> pot, sidePots |-> <<>>,
                       winners |-> <<winner>>, amountWon |-> pot,
                       awarded |-> [u \in Users |->
                                      WinByFold(winner)[u].stack - players[u].stack]])
               /\ UNCHANGED <<isHandActive, handValue>>
       ELSE \E hv \in [Users -> HandStrengths \cup {0}] :
            /\ \A u \in Users :
                 IF u \in activePlayers /\ handValue[u] = 0
                 THEN hv[u] # 0 ELSE hv[u] = handValue[u]
            /\ boardCards = 5
            /\ LET winnerIds == findWinners(activePlayers, players, hv)
                   sidePots == calculateSidePots(players)
                   stacks == IF Len(sidePots) > 0
                             THEN distributeSidePots(sidePots, winnerIds, Stacks)
                             ELSE distributePot(pot, winnerIds, Stacks)
               IN /\ players' = [u \in Users |-> [players[u] EXCEPT !.stack = stacks[u]]]
                  /\ distributions' = Append(distributions,
                         [how |-> "showdown", pot |-> pot, sidePots |-> sidePots,
                          winners |-> winnerIds,
                          amountWon |-> AmountWon(pot, Len(winnerIds)),
                          awarded |-> [u \in Users |-> stacks[u] - players[u].stack]])
            /\ handValue' = hv
            /\ pending' = rest (+) SetToBag({WinCont("showdown")})
            /\ UNCHANGED isHandActive

\* ---- advanceToNextStreet, up to its await ----
NextStreet(street) ==
    CASE street = "preflop" -> "flop"
      [] street = "flop" -> "turn"
      [] OTHER -> "river"

\* a deal of one card on every street
CardsToDealOne(street) == 1

CardsToDeal(street) == IF street = "preflop" THEN 3 ELSE 1

\* a street reset that also clears the folded flags
ResetForStreetUnfolds(ps) ==
    [u \in Users |-> IF ps[u].isActive
                     THEN [ps[u] EXCEPT !.hasActed = FALSE, !.currentBet = 0, !.isFolded = FALSE]
                     ELSE ps[u]]

ResetForStreet(ps) ==
    [u \in Users |-> IF ps[u].isActive /\ ~ps[u].isFolded
                     THEN [ps[u] EXCEPT !.hasActed = FALSE, !.currentBet = 0]
                     ELSE ps[u]]

advanceToNextStreet(rest, ev) ==
    IF currentStreet = "river" THEN determineWinner(rest, ev)
    ELSE /\ deck >= CardsToDeal(currentStreet)
         /\ timer' = NoTimer
         /\ deck' = deck - CardsToDeal(currentStreet)
         /\ boardCards' = boardCards + CardsToDeal(currentStreet)
         /\ currentStreet' = NextStreet(currentStreet)
         /\ players' = ResetForStreet(players)
         /\ currentBet' = 0
         /\ pending' = rest (+) SetToBag({StreetCont})
         /\ emitted' = ev
         /\ submitted' = NoMessage
         /\ UNCHANGED <<handNumber, dealerPosition, smallBlindPosition,
                        bigBlindPosition, currentPlayerPosition, pot, isHandActive,
                        startTimeouts, ghostVars>>

\* ---- advanceToNextPlayer ----
advanceToNextPlayer(rest, ev) ==
    IF Cardinality(getActivePlayers(players)) <= 1 THEN determineWinner(rest, ev)
    ELSE IF isBettingRoundComplete(players, currentBet) THEN advanceToNextStreet(rest, ev)
    ELSE /\ currentPlayerPosition' =
                NextPosition(getActivePlayers(players), currentPlayerPosition)
         /\ timer' = startTurnTimer(currentPlayerPosition')
         /\ actionsThisTurn' = 0
         /\ pending' = rest
         /\ submitted' = NoMessage
         /\ emitted' = ev \cup TurnStarted(currentPlayerPosition')
         /\ UNCHANGED <<players, handNumber, dealerPosition, smallBlindPosition,
                        bigBlindPosition, currentStreet, pot, currentBet, boardCards,
                        deck, isHandActive, startTimeouts, handValue, cardsSeen,
                        handStartChips, distributions>>

\* handlePlayerAction after the action is persisted
ResumeAct(c) ==
    /\ BagIn(c, pending)
    /\ c.k = "act"
    /\ advanceToNextPlayer(Resume(c),
           {Ev("game:action:performed", ToRoom, c.userId, c.action)})

\* advanceToNextStreet after the board is persisted
ResumeStreet ==
    /\ BagIn(StreetCont, pending)
    /\ IF getActivePlayers(players) = {}
       THEN determineWinner(Resume(StreetCont),
                {Ev("game:street:advanced", ToRoom, 0, currentStreet)})
       ELSE /\ currentPlayerPosition' =
                   NextPosition(getActivePlayers(players), dealerPosition)
            /\ timer' = startTurnTimer(currentPlayerPosition')
            /\ actionsThisTurn' = 0
            /\ pending' = Resume(StreetCont)
            /\ submitted' = NoMessage
            /\ emitted' = {Ev("game:street:advanced", ToRoom, 0, currentStreet)}
                          \cup TurnStarted(currentPlayerPosition')
            /\ UNCHANGED <<players, handNumber, dealerPosition, smallBlindPosition,
                           bigBlindPosition, currentStreet, pot, currentBet,
                           boardCards, deck, isHandActive, startTimeouts, handValue,
                           cardsSeen, handStartChips, distributions>>

\* game:winner:determined: info is the hand rank of the winner record, n the
\* number of hole cards it carries
WinnerDetermined(how) ==
    IF how = "fold"
    THEN [Ev("game:winner:determined", ToRoom, 0, "Win by fold") EXCEPT !.n = 0]
    ELSE [Ev("game:winner:determined", ToRoom, 0, "handRank.name") EXCEPT !.n = 2]

\* ---- prepareNextHand ----
\* an elimination that marks nobody
EliminateNobody(ps) == ps

\* a count of the remaining players that includes the eliminated ones
RemainingPlayersAll(ps) == Users

\* the players still in the game: players.filter(p => p.isActive)
RemainingPlayers(ps) == {u \in Users : ps[u].isActive}

Eliminate(ps) ==
    [u \in Users |-> IF ps[u].stack = 0 THEN [ps[u] EXCEPT !.isActive = FALSE] ELSE ps[u]]

\* determineWinner after the winners are persisted, then prepareNextHand
ResumeWin(c) ==
    /\ BagIn(c, pending)
    /\ c.k = "win"
    /\ pending' = Resume(c)
    /\ submitted' = NoMessage
    /\ isHandActive' = FALSE
    /\ players' = Eliminate(players)
    /\ LET activePositions == SortAsc(RemainingPlayers(players'))
           n == Len(activePositions)
       IN IF n < 2
          THEN /\ emitted' = {WinnerDetermined(c.action),
                              Ev("game:ended", ToRoom, 0, "")}
               /\ UNCHANGED <<dealerPosition, smallBlindPosition, bigBlindPosition,
                              startTimeouts>>
          ELSE LET nextDealerPosition ==
                       NextPosition(RemainingPlayers(players'), dealerPosition)
                   dealerIndex == IndexOf(activePositions, nextDealerPosition)
               IN /\ dealerPosition' = nextDealerPosition
                  /\ smallBlindPosition' = At(activePositions, smallBlindIndex(dealerIndex, n))
                  /\ bigBlindPosition' = At(activePositions, bigBlindIndex(dealerIndex, n))
                  /\ startTimeouts' = startTimeouts + 1
                  /\ emitted' = {WinnerDetermined(c.action)}
    /\ UNCHANGED <<handNumber, currentPlayerPosition, currentStreet, pot, currentBet,
                   boardCards, deck, timer, ghostVars>>

\* ---- the environment ----
\* client messages arrive at the timer readings of SubmitTimes
OnTime == timer.on => timer.timeRemaining \in SubmitTimes

\* no handler is suspended: every message is handled before the next arrives
Sequential == NumPending = 0

ClientSends(types, amounts) ==
    \E u \in Users, type \in types :
        \E amount \in (IF type = "raise" THEN amounts ELSE {0}) :
            SubmitAction(u, type, amount)

TimerFires == timer.userId \in SilentUsers /\ TimerTick

Resumes ==
    \/ ResumeStart
    \/ \E c \in BagToSet(pending) : ResumeAct(c)
    \/ ResumeStreet
    \/ \E c \in BagToSet(pending) : ResumeWin(c)

\* one hand, every message handled before the next one arrives
Next ==
    \/ StartHand
    \/ OnTime /\ Sequential /\ ClientSends(ActionTypes, RaiseAmounts)
    \/ TimerFires
    \/ Resumes

Spec == Init /\ [][Next]_vars

\* ---- messages overlapping a suspended handler ----
\* the action types clients send in the runs with overlapping messages
RaceTypes == {"fold", "check", "call", "all_in"}

NextRace ==
    \/ StartHand
    \/ OnTime /\ ClientSends(RaceTypes, {})
    \/ TimerFires
    \/ Resumes

SpecRace == Init /\ [][NextRace]_vars

\* ---- PotManager on its own: inputs drawn from bounded sets ----
\* chips of the pots handed to distributePot
MaxPotChips == 5
\* bets of the players handed to calculateSidePots
PotBets == {0, 50, 100}

InitPot ==
    /\ players \in [Users -> [stack : {0}, currentBet : PotBets, holeCards : {TRUE},
                              isActive : {TRUE}, isFolded : BOOLEAN, hasActed : {TRUE}]]
    /\ pot \in 0..MaxPotChips
    /\ handNumber = 1
    /\ dealerPosition = 0
    /\ smallBlindPosition = 1
    /\ bigBlindPosition = 2
    /\ currentPlayerPosition = 0
    /\ currentStreet = "river"
    /\ currentBet = 0
    /\ boardCards = 5
    /\ deck = DECK_SIZE - 2 * Cardinality(Users) - 5
    /\ isHandActive = TRUE
    /\ timer = NoTimer
    /\ pending = EmptyBag
    /\ startTimeouts = 0
    /\ handValue = [u \in Users |-> 0]
    /\ emitted = {}
    /\ cardsSeen = {}
    /\ handStartChips = 0
    /\ distributions = <<>>
    /\ actionsThisTurn = 0
    /\ submitted = NoMessage

NoAward == [u \in Users |-> 0]

\* PotManager.calculateSidePots(players)
ApplyCalculateSidePots ==
    /\ distributions = <<>>
    /\ distributions' = <<[how |-> "sidePots", pot |-> pot,
                           sidePots |-> calculateSidePots(players),
                           winners |-> <<>>, amountWon |-> 0, awarded |-> NoAward]>>
    /\ UNCHANGED <<engineVars, timer, pending, startTimeouts, handValue, cardsSeen,
                   handStartChips, actionsThisTurn, emitted, submitted>>

\* PotManager.distributePot(pot, winners, players)
ApplyDistributePot(winners) ==
    /\ distributions = <<>>
    /\ LET stacks == distributePot(pot, winners, Stacks)
       IN /\ players' = [u \in Users |-> [players[u] EXCEPT !.stack = stacks[u]]]
          /\ distributions' = <<[how |-> "tie", pot |-> pot, sidePots |-> <<>>,
                                 winners |-> winners, amountWon |-> 0,
                                 awarded |-> [u \in Users |-> stacks[u] - players[u].stack]]>>
    /\ UNCHANGED <<handNumber, dealerPosition, smallBlindPosition, bigBlindPosition,
                   currentPlayerPosition, currentStreet, pot, currentBet, boardCards,
                   deck, isHandActive, timer, pending, startTimeouts, handValue,
                   cardsSeen, handStartChips, actionsThisTurn, emitted, submitted>>

NextPot ==
    \/ ApplyCalculateSidePots
    \/ \E W \in (SUBSET Users) \ {{}} : ApplyDistributePot(SortAsc(W))

SpecPot == InitPot /\ [][NextPot]_vars

\* ---- the hand after scenario S1 ----
\* hands started by the end of the second hand
MaxLaterHands == 2
\* the action types clients send in the second hand
LaterTypes == {"fold", "check", "call", "raise", "all_in"}

\* the state Spec reaches when seats 0 and 1 have folded the first hand to the
\* big blind and prepareNextHand has moved the button
InitAfterS1 ==
    /\ players = (0 :> [stack |-> 1500, currentBet |-> 0, holeCards |-> TRUE,
                        isActive |-> TRUE, isFolded |-> TRUE, hasActed |-> TRUE]
               @@ 1 :> [stack |-> 1490, currentBet |-> 10, holeCards |-> TRUE,
                        isActive |-> TRUE, isFolded |-> TRUE, hasActed |-> TRUE]
               @@ 2 :> [stack |-> 1510, currentBet |-> 20, holeCards |-> TRUE,
                        isActive |-> TRUE, isFolded |-> FALSE, hasActed |-> FALSE])
    /\ handNumber = 1
    /\ dealerPosition = 1
    /\ smallBlindPosition = 2
    /\ bigBlindPosition = 0
    /\ currentPlayerPosition = 1
    /\ currentStreet = "preflop"
    /\ pot = SMALL_BLIND + BIG_BLIND
    /\ currentBet = BIG_BLIND
    /\ boardCards = 0
    /\ deck = DECK_SIZE - 2 * Cardinality(Users)
    /\ isHandActive = FALSE
    /\ timer = NoTimer
    /\ pending = EmptyBag
    /\ startTimeouts = 1
    /\ handValue = [u \in Users |-> 0]
    /\ emitted = {WinnerDetermined("fold")}
    /\ cardsSeen = RoomSockets \X Users
    /\ handStartChips = Cardinality(Users) * STARTING_STACK
    /\ distributions = <<[how |-> "fold", pot |-> SMALL_BLIND + BIG_BLIND,
                          sidePots |-> <<>>, winners |-> <<2>>,
                          amountWon |-> SMALL_BLIND + BIG_BLIND,
                          awarded |-> (0 :> 0 @@ 1 :> 0 @@ 2 :> SMALL_BLIND + BIG_BLIND)]>>
    /\ actionsThisTurn = 1
    /\ submitted = NoMessage

NextLater ==
    \/ StartHandUpTo(MaxLaterHands)
    \/ OnTime /\ Sequential /\ ClientSends(LaterTypes, RaiseAmounts)
    \/ TimerFires
    \/ Resumes

SpecLater == InitAfterS1 /\ [][NextLater]_vars

\* ---- store writes that fail ----
\* the action types clients send in the runs with failing store writes
FailTypes == {"fold", "check", "call"}
\* actions applied to one turn whose handlers failed before the turn moved on
MaxRetries == 2

\* the query a handler awaits rejects: the rest of the handler never runs.  The
\* Error reaches the catch of the caller at the bottom of the await chain: the
\* socket handler of the submitting client, who is the player to act; the
\* route that started the game, for the first startHand; the timeout of
\* prepareNextHand, for a later startHand
StoreFails(c) ==
    /\ BagIn(c, pending)
    /\ pending' = Resume(c)
    /\ submitted' = NoMessage
    /\ emitted' =
          IF c.k = "start"
          THEN (IF handNumber = 1 THEN {}
                ELSE {Ev("game:error", ToRoom, 0, "Error starting next hand")})
          ELSE {Ev("game:error", "socket", u, "query rejected") :
                    u \in getPlayerAtPosition(currentPlayerPosition)}
    /\ UNCHANGED <<engineVars, timer, startTimeouts, ghostVars>>

\* clients only, one message at a time, every await may reject
NextFail ==
    \/ StartHand
    \/ OnTime /\ Sequential /\ actionsThisTurn < MaxRetries /\ ClientSends(FailTypes, {})
    \/ Resumes
    \/ \E c \in BagToSet(pending) : StoreFails(c)

SpecFail == Init /\ [][NextFail]_vars

\* ---- CardManager on its own: the cards of the deck, the hands and the board ----
\* ranks of the deck built by createDeck (13 in the program)
DeckRanks == 3
\* suits of the deck
DeckSuits == 4
\* hands dealt
MaxCardHands == 2

\* createDeck: for every suit, for every rank, push {rank, suit}
createDeck ==
    [i \in 1..(DeckRanks * DeckSuits) |->
        [rank |-> ((i - 1) % DeckRanks) + 1, suit |-> ((i - 1) \div DeckRanks) + 1]]

\* a shuffle step that copies shuffled[j] to shuffled[i] and loses shuffled[i]
SwapOneWay(d, i, j) == [d EXCEPT ![i + 1] = d[j + 1]]

\* [shuffled[i], shuffled[j]] = [shuffled[j], shuffled[i]], 0-based
Swap(d, i, j) == [d EXCEPT ![i + 1] = d[j + 1], ![j + 1] = d[i + 1]]

\* the loop of shuffleDeck from index i down to 1; js[i] is crypto.randomInt(0, i + 1)
RECURSIVE ShuffleFrom(_, _, _)
ShuffleFrom(d, i, js) ==
    IF i <= 0 THEN d ELSE ShuffleFrom(Swap(d, i, js[i]), i - 1, js)

shuffleDeck(d, js) == ShuffleFrom(d, Len(d) - 1, js)

\* the draws of crypto.randomInt considered: the two ends of each range [0, i]
RandomDraws(n) ==
    {[i \in 1..(n - 1) |-> IF c[i] THEN i ELSE 0] : c \in [1..(n - 1) -> BOOLEAN]}

\* a deal that returns the first count cards and leaves them in the deck
dealCardsKept(d, count) == [dealt |-> SubSeq(d, 1, count), rest |-> d]

\* dealCards: deck.splice(0, count)
dealCards(d, count) ==
    [dealt |-> SubSeq(d, 1, count), rest |-> SubSeq(d, count + 1, Len(d))]

\* the loop of startHand that deals two cards to every player, in map order
RECURSIVE DealHoleFrom(_, _, _)
DealHoleFrom(ps, d, order) ==
    IF order = <<>> THEN [players |-> ps, deck |-> d]
    ELSE LET u == Head(order)
         IN IF ps[u].isActive /\ ~ps[u].isFolded
            THEN DealHoleFrom([ps EXCEPT ![u].holeCards = dealCards(d, 2).dealt],
                              dealCards(d, 2).rest, Tail(order))
            ELSE DealHoleFrom(ps, d, Tail(order))

InitCards ==
    /\ players = [u \in Users |->
                    [stack |-> STARTING_STACK, currentBet |-> 0, holeCards |-> <<>>,
                     isActive |-> TRUE, isFolded |-> FALSE, hasActed |-> FALSE]]
    /\ handNumber = 0
    /\ dealerPosition = 0
    /\ smallBlindPosition = 1
    /\ bigBlindPosition = 2
    /\ currentPlayerPosition = 0
    /\ currentStreet = "preflop"
    /\ pot = 0
    /\ currentBet = 0
    /\ boardCards = <<>>
    /\ deck = <<>>
    /\ isHandActive = FALSE
    /\ timer = NoTimer
    /\ pending = EmptyBag
    /\ startTimeouts = 0
    /\ handValue = [u \in Users |-> 0]
    /\ emitted = {}
    /\ cardsSeen = {}
    /\ handStartChips = 0
    /\ distributions = <<>>
    /\ actionsThisTurn = 0
    /\ submitted = NoMessage

\* the cards of startHand: a new shuffled deck, an empty board, two cards each
ApplyShuffleAndDeal ==
    /\ handNumber < MaxCardHands
    /\ handNumber > 0 => currentStreet = "river"
    /\ \E js \in RandomDraws(Len(createDeck)) :
         LET cleared == [u \in Users |-> [players[u] EXCEPT !.holeCards = <<>>]]
             dealt == DealHoleFrom(cleared, shuffleDeck(createDeck, js), SortAsc(Users))
         IN /\ players' = dealt.players
            /\ deck' = dealt.deck
    /\ handNumber' = handNumber + 1
    /\ currentStreet' = "preflop"
    /\ boardCards' = <<>>
    /\ UNCHANGED <<dealerPosition, smallBlindPosition, bigBlindPosition,
                   currentPlayerPosition, pot, currentBet, isHandActive, timer, pending,
                   startTimeouts, ghostVars, emitted, submitted>>

\* the cards of advanceToNextStreet: the board takes the next cards of the deck
ApplyDealStreet ==
    /\ handNumber > 0
    /\ currentStreet # "river"
    /\ Len(deck) >= CardsToDeal(currentStreet)
    /\ boardCards' = boardCards \o dealCards(deck, CardsToDeal(currentStreet)).dealt
    /\ deck' = dealCards(deck, CardsToDeal(currentStreet)).rest
    /\ currentStreet' = NextStreet(currentStreet)
    /\ UNCHANGED <<players, handNumber, dealerPosition, smallBlindPosition,
                   bigBlindPosition, currentPlayerPosition, pot, currentBet,
                   isHandActive, timer, pending, startTimeouts, ghostVars, emitted,
                   submitted>>

NextCards ==
    \/ ApplyShuffleAndDeal
    \/ ApplyDealStreet

SpecCards == InitCards /\ [][NextCards]_vars

\* ---- HandEvaluator on its own: hands evaluated from the cards ----
HIGH_CARD == 0
PAIR == 1
TWO_PAIR == 2
THREE_OF_A_KIND == 3
STRAIGHT == 4
FLUSH == 5
FULL_HOUSE == 6
FOUR_OF_A_KIND == 7
STRAIGHT_FLUSH == 8

\* rankValue: the values record of the ranks '2'..'A'
rankValue(rank) ==
    (("2" :> 2) @@ ("3" :> 3) @@ ("4" :> 4) @@ ("5" :> 5) @@ ("6" :> 6) @@ ("7" :> 7)
     @@ ("8" :> 8) @@ ("9" :> 9) @@ ("T" :> 10) @@ ("J" :> 11) @@ ("Q" :> 12)
     @@ ("K" :> 13) @@ ("A" :> 14))[rank]

Card(rank, suit) == [rank |-> rank, suit |-> suit]

HandRank(rank, name, tiebreakers) == [rank |-> rank, name |-> name, tiebreakers |-> tiebreakers]

RemoveAt(s, i) == SubSeq(s, 1, i - 1) \o SubSeq(s, i + 1, Len(s))

\* sort((a, b) => a - b) of a sequence of numbers
RECURSIVE SortSeqAsc(_)
SortSeqAsc(s) ==
    IF s = <<>> THEN <<>>
    ELSE LET i == CHOOSE i \in 1..Len(s) : \A j \in 1..Len(s) : s[i] <= s[j]
         IN <<s[i]>> \o SortSeqAsc(RemoveAt(s, i))

\* sort((a, b) => b - a)
RECURSIVE SortSeqDesc(_)
SortSeqDesc(s) ==
    IF s = <<>> THEN <<>>
    ELSE LET i == CHOOSE i \in 1..Len(s) : \A j \in 1..Len(s) : s[i] >= s[j]
         IN <<s[i]>> \o SortSeqDesc(RemoveAt(s, i))

\* cards.map(c => rankValue(c.rank))
ValuesOf(cards) == [i \in 1..Len(cards) |-> rankValue(cards[i].rank)]

isFlush(cards) == \A i \in 1..Len(cards) : cards[i].suit = cards[1].suit

\* a straight test that does not know the ace-low straight
getStraightValueNoWheel(cards) ==
    LET values == SortSeqAsc(ValuesOf(cards))
    IN IF \A i \in 2..Len(values) : values[i] = values[i - 1] + 1 THEN values[5] ELSE 0

getStraightValue(cards) ==
    LET values == SortSeqAsc(ValuesOf(cards))
        has(v) == \E i \in 1..Len(values) : values[i] = v
    IN IF \A i \in 2..Len(values) : values[i] = values[i - 1] + 1 THEN values[5]
       ELSE IF has(14) /\ has(2) /\ has(3) /\ has(4) /\ has(5) THEN 5
       ELSE 0

\* getRankCounts: {value, count} sorted by count descending, then value descending
RECURSIVE SortCounts(_)
SortCounts(S) ==
    IF S = {} THEN <<>>
    ELSE LET m == CHOOSE a \in S : \A b \in S :
                      a.count > b.count \/ (a.count = b.count /\ a.value >= b.value)
         IN <<m>> \o SortCounts(S \ {m})

getRankCounts(cards) ==
    LET values == ValuesOf(cards)
    IN SortCounts({[value |-> v, count |-> Cardinality({i \in 1..Len(values) : values[i] = v})] :
                      v \in {values[i] : i \in 1..Len(values)}})

\* rankCounts.filter(c => c.count === n).map(c => c.value), in the order of rankCounts
RECURSIVE ValuesWithCount(_, _)
ValuesWithCount(rankCounts, n) ==
    IF rankCounts = <<>> THEN <<>>
    ELSE (IF Head(rankCounts).count = n THEN <<Head(rankCounts).value>> ELSE <<>>)
         \o ValuesWithCount(Tail(rankCounts), n)

evaluate5CardHand(cards) ==
    LET straightValue == getStraightValue(cards)
        rankCounts == getRankCounts(cards)
        fours == ValuesWithCount(rankCounts, 4)
        threes == ValuesWithCount(rankCounts, 3)
        pairs == ValuesWithCount(rankCounts, 2)
        singles == ValuesWithCount(rankCounts, 1)
    IN IF isFlush(cards) /\ straightValue > 0
       THEN HandRank(STRAIGHT_FLUSH, "Straight Flush", <<straightValue>>)
       ELSE IF fours # <<>>
       THEN HandRank(FOUR_OF_A_KIND, "Four of a Kind", <<fours[1], singles[1]>>)
       ELSE IF threes # <<>> /\ pairs # <<>>
       THEN HandRank(FULL_HOUSE, "Full House", <<threes[1], pairs[1]>>)
       ELSE IF isFlush(cards)
       THEN HandRank(FLUSH, "Flush", SortSeqDesc(ValuesOf(cards)))
       ELSE IF straightValue > 0
       THEN HandRank(STRAIGHT, "Straight", <<straightValue>>)
       ELSE IF threes # <<>>
       THEN HandRank(THREE_OF_A_KIND, "Three of a Kind", <<threes[1]>> \o SortSeqDesc(singles))
       ELSE IF Len(pairs) = 2
       THEN HandRank(TWO_PAIR, "Two Pair", SortSeqDesc(pairs) \o <<singles[1]>>)
       ELSE IF Len(pairs) = 1
       THEN HandRank(PAIR, "Pair", <<pairs[1]>> \o SortSeqDesc(singles))
       ELSE HandRank(HIGH_CARD, "High Card", SortSeqDesc(ValuesOf(cards)))

\* hand.tiebreakers[i] || 0, 0-based i
TiebreakerAt(hand, i) == IF i < Len(hand.tiebreakers) THEN hand.tiebreakers[i + 1] ELSE 0

\* a comparison by category alone
compareHandsRankOnly(hand1, hand2) ==
    IF hand1.rank > hand2.rank THEN 1 ELSE IF hand1.rank < hand2.rank THEN -1 ELSE 0

\* the loop of compareHands over the tiebreakers from index i
RECURSIVE CompareFrom(_, _, _)
CompareFrom(hand1, hand2, i) ==
    IF i >= Len(hand1.tiebreakers) /\ i >= Len(hand2.tiebreakers) THEN 0
    ELSE IF TiebreakerAt(hand1, i) > TiebreakerAt(hand2, i) THEN 1
    ELSE IF TiebreakerAt(hand1, i) < TiebreakerAt(hand2, i) THEN -1
    ELSE CompareFrom(hand1, hand2, i + 1)

compareHands(hand1, hand2) ==
    IF hand1.rank > hand2.rank THEN 1
    ELSE IF hand1.rank < hand2.rank THEN -1
    ELSE CompareFrom(hand1, hand2, 0)

\* getCombinations(arr, k): the combinations with the first element, then those without
RECURSIVE getCombinations(_, _)
getCombinations(arr, k) ==
    IF k = 0 THEN <<<<>>>>
    ELSE IF arr = <<>> THEN <<>>
    ELSE LET withFirst == getCombinations(Tail(arr), k - 1)
         IN [i \in 1..Len(withFirst) |-> <<Head(arr)>> \o withFirst[i]]
            \o getCombinations(Tail(arr), k)

\* the loop of evaluateHand over the combinations from index i
RECURSIVE BestFrom(_, _, _)
BestFrom(combinations, i, bestHand) ==
    IF i > Len(combinations) THEN bestHand
    ELSE LET hand == evaluate5CardHand(combinations[i])
         IN BestFrom(combinations, i + 1,
                     IF compareHands(hand, bestHand) > 0 THEN hand ELSE bestHand)

\* an evaluation that looks at the first five cards only
evaluateFirstFive(holeCards, cards) == evaluate5CardHand(SubSeq(holeCards \o cards, 1, 5))

evaluateHand(holeCards, cards) ==
    LET combinations == getCombinations(holeCards \o cards, 5)
    IN BestFrom(combinations, 2, evaluate5CardHand(combinations[1]))

\* the loop of findWinners that finds the best hand
RECURSIVE BestHandFrom(_, _, _)
BestHandFrom(evaluatedHands, i, bestHand) ==
    IF i > Len(evaluatedHands) THEN bestHand
    ELSE BestHandFrom(evaluatedHands, i + 1,
                      IF compareHands(evaluatedHands[i].hand, bestHand) > 0
                      THEN evaluatedHands[i].hand ELSE bestHand)

RECURSIVE TiedWith(_, _)
TiedWith(evaluatedHands, bestHand) ==
    IF evaluatedHands = <<>> THEN <<>>
    ELSE (IF compareHands(Head(evaluatedHands).hand, bestHand) = 0
          THEN <<Head(evaluatedHands).userId>> ELSE <<>>)
         \o TiedWith(Tail(evaluatedHands), bestHand)

\* players.filter(p => !p.isFolded && p.holeCards), in map order
ShowingPlayers(ps) ==
    FilterSeq(SortAsc(Users), {u \in Users : ~ps[u].isFolded /\ ps[u].holeCards # <<>>})

\* a search for winners that returns the first player only
findFirstShowing(ps, cards) ==
    IF ShowingPlayers(ps) = <<>> THEN <<>> ELSE <<ShowingPlayers(ps)[1]>>

\* findWinners(players, boardCards) over the cards themselves
findWinnersByHand(ps, cards) ==
    LET activePlayers == ShowingPlayers(ps)
        evaluatedHands == [i \in 1..Len(activePlayers) |->
                              [userId |-> activePlayers[i],
                               hand |-> evaluateHand(ps[activePlayers[i]].holeCards, cards)]]
    IN IF Len(activePlayers) = 0 THEN <<>>
       ELSE IF Len(activePlayers) = 1 THEN <<activePlayers[1]>>
       ELSE TiedWith(evaluatedHands, BestHandFrom(evaluatedHands, 2, evaluatedHands[1].hand))

\* the boards the hands are evaluated on
EvalBoards ==
    {<<Card("3", "c"), Card("4", "c"), Card("5", "h"), Card("9", "d"), Card("K", "c")>>,
     <<Card("6", "c"), Card("8", "c"), Card("9", "c"), Card("J", "c"), Card("Q", "d")>>,
     <<Card("3", "c"), Card("4", "c"), Card("5", "c"), Card("J", "c"), Card("Q", "c")>>}

\* the cards the hole cards are drawn from
EvalHoleCards ==
    <<Card("A", "s"), Card("A", "c"), Card("2", "d"), Card("2", "c"),
      Card("6", "s"), Card("6", "d"), Card("9", "s")>>

\* the two cards of EvalHoleCards at indexes i < j
HolePairs == {p \in (1..Len(EvalHoleCards)) \X (1..Len(EvalHoleCards)) : p[1] < p[2]}

\* the hand of a player whose cards were not evaluated yet
NotEvaluated == HandRank(-1, "", <<>>)

\* players who may have folded before the showdown
MayHaveFolded == {2}

InitEval ==
    /\ \E board \in EvalBoards, hole \in [Users -> HolePairs], folded \in SUBSET MayHaveFolded :
         /\ \A u, v \in Users : u # v => {hole[u][1], hole[u][2]} \cap {hole[v][1], hole[v][2]} = {}
         /\ boardCards = board
         /\ players = [u \in Users |->
                         [stack |-> 0, currentBet |-> 0,
                          holeCards |-> <<EvalHoleCards[hole[u][1]], EvalHoleCards[hole[u][2]]>>,
                          isActive |-> TRUE, isFolded |-> u \in folded, hasActed |-> TRUE]]
    /\ handNumber = 1
    /\ dealerPosition = 0
    /\ smallBlindPosition = 1
    /\ bigBlindPosition = 2
    /\ currentPlayerPosition = 0
    /\ currentStreet = "river"
    /\ pot = 0
    /\ currentBet = 0
    /\ deck = <<>>
    /\ isHandActive = TRUE
    /\ timer = NoTimer
    /\ pending = EmptyBag
    /\ startTimeouts = 0
    /\ handValue = [u \in Users |-> NotEvaluated]
    /\ emitted = {}
    /\ cardsSeen = {}
    /\ handStartChips = 0
    /\ distributions = <<>>
    /\ actionsThisTurn = 0
    /\ submitted = NoMessage

\* HandEvaluator.evaluateHand(holeCards, boardCards) of every player
ApplyEvaluateHand ==
    /\ handValue = [u \in Users |-> NotEvaluated]
    /\ handValue' = [u \in Users |-> evaluateHand(players[u].holeCards, boardCards)]
    /\ UNCHANGED <<engineVars, timer, pending, startTimeouts, cardsSeen, handStartChips,
                   distributions, actionsThisTurn, emitted, submitted>>

\* HandEvaluator.findWinners(players, boardCards)
ApplyFindWinners ==
    /\ distributions = <<>>
    /\ distributions' = <<[how |-> "findWinners", pot |-> pot, sidePots |-> <<>>,
                           winners |-> findWinnersByHand(players, boardCards),
                           amountWon |-> 0, awarded |-> NoAward]>>
    /\ UNCHANGED <<engineVars, timer, pending, startTimeouts, handValue, cardsSeen,
                   handStartChips, actionsThisTurn, emitted, submitted>>

NextEval ==
    \/ ApplyEvaluateHand
    \/ ApplyFindWinners

SpecEval == InitEval /\ [][NextEval]_vars

\* ---- a match of several hands ----
\* hands started in a match
MaxMatchHands == 2
\* indexes Math.random() picks the dealer from in a match
MatchDealerIndexes == {0, 1, 2}
\* the action types clients send in a match
MatchTypes == {"fold", "call", "all_in"}

InitMatch == InitWith(MatchDealerIndexes)

NextMatch ==
    \/ StartHandUpTo(MaxMatchHands)
    \/ OnTime /\ Sequential /\ ClientSends(MatchTypes, {})
    \/ TimerFires
    \/ Resumes

SpecMatch == InitMatch /\ [][NextMatch]_vars

\* the timeout that prepareNextHand sets fires, and startHand runs
SpecMatchFair == SpecMatch /\ WF_vars(StartHandUpTo(MaxMatchHands))

\* ======================= properties =======================
\* the distributions made so far
Dists == {distributions[i] : i \in 1..Len(distributions)}

Awarded(d) == SumOver(d.awarded, Users)

ErrorsSent(msgs) == {e \in emitted' : e.ev = "game:error" /\ e.info \in msgs}

\* ---- C1 ----
\* C1: once the pot of a hand has been distributed, the chips awarded equal the
\* pot at showdown or fold-out, and the stacks sum to what they summed to before
\* StartHand posted the blinds.
C1_ChipConservation ==
    Len(distributions) = 1 =>
        /\ Awarded(distributions[1]) = distributions[1].pot
        /\ TotalStacks = handStartChips

\* ---- C2 ----
\* C2: at every state of a hand in progress, before its pot is distributed, the
\* pot plus the stacks equals the chips the players held when the hand started.
C2_PotConservation ==
    (isHandActive /\ distributions = <<>>) => pot + TotalStacks = handStartChips

\* a hand on the river with a called bet and a player all-in
C2_Witness ==
    /\ isHandActive /\ distributions = <<>>
    /\ currentStreet = "river"
    /\ pot > 3 * BIG_BLIND
    /\ \E u \in Users : players[u].stack = 0
    /\ pot + TotalStacks = handStartChips

\* ---- C3 ----
\* C3: of the messages that arrive for one turn, exactly one takes effect: no
\* turn has two actions applied to it.
C3_OneActionPerTurn == actionsThisTurn <= 1

\* ---- C4 ----
\* the timer callback that stops the timer: the turn timed out
TimerExpires ==
    /\ timer.on
    /\ ~timer'.on
    /\ \E e \in emitted' : e.ev = "game:turn:tick"

FoldResumes(u) ==
    CopiesIn(ActCont(u, "fold"), pending') < CopiesIn(ActCont(u, "fold"), pending)

\* C4: the timer of a turn expires at its 30th tick, and then the acting player
\* is folded through the handler of a submitted Fold: the player is marked
\* folded, no error is raised, and the same continuation as a client's fold is
\* left to announce the fold and move the hand on.
C4_TimeoutFolds ==
    [][/\ TimerExpires =>
            /\ timer.ticks + 1 = TURN_TIME_SECONDS
            /\ EvN("game:turn:tick", ToRoom, 0, 0) \in emitted'
            /\ players' = Fold(timer.userId).players
            /\ players'[timer.userId].isFolded
            /\ pot' = pot /\ currentBet' = currentBet
            /\ pending' = Suspend(ActCont(timer.userId, "fold"))
            /\ ErrorsSent({"Error processing timeout"}) = {}
       /\ \A u \in Users : FoldResumes(u) =>
            /\ Ev("game:action:performed", ToRoom, u, "fold") \in emitted'
            /\ \/ timer'.on
               \/ BagIn(StreetCont, pending')
               \/ \E d \in {distributions'[i] : i \in 1..Len(distributions')} : TRUE
               \/ ~isHandActive'
      ]_vars

\* ---- C5 ----
\* the non-folded players of S with the best hand, in seat order
BestOf(S, hv) == SortAsc({u \in S : ~players[u].isFolded /\ \A v \in S : hv[u] >= hv[v]})

\* every side pot paid to the best hands among its own eligible players
RECURSIVE PerPotAward(_, _, _)
PerPotAward(sidePots, hv, acc) ==
    IF sidePots = <<>> THEN acc
    ELSE PerPotAward(Tail(sidePots), hv,
                     distributePot(Head(sidePots).amount,
                                   BestOf(Head(sidePots).eligiblePlayers, hv), acc))

\* C5: at a showdown with side pots, each pot is awarded to the best hand among
\* the players eligible for that pot.
C5_SidePotsToOwnBest ==
    \A d \in Dists :
        (d.how = "showdown" /\ d.sidePots # <<>>) =>
            d.awarded = PerPotAward(d.sidePots, handValue, NoAward)

\* ---- C6 ----
\* C6: the amounts of the pots calculateSidePots returns sum to the chips the
\* players committed, those of folded players included.
C6_SidePotsSumToCommitted ==
    \A d \in Dists :
        d.how = "sidePots" =>
            SeqSum([i \in 1..Len(d.sidePots) |-> d.sidePots[i].amount])
                = SumOver([u \in Users |-> players[u].currentBet], Users)

\* ---- C7 ----
WinnersOf(d) == {d.winners[i] : i \in 1..Len(d.winners)}

C8_HolePrivacy == \A so \in cardsSeen : so[1] = so[2]

\* ---- C9 ----
\* C9: a Check facing a bet and a Raise below the minimum are rejected with an
\* error and leave the engine state, the armed turn timer included, unchanged.
C9_IllegalActionKeepsState ==
    [][ErrorsSent({"Cannot check, must call or fold", "Raise amount too low"}) # {}
          => UNCHANGED <<engineVars, timer, pending, startTimeouts>>]_vars

\* ---- C10 ----
Accepted(u) ==
    \E a \in ActionTypes : CopiesIn(ActCont(u, a), pending') > CopiesIn(ActCont(u, a), pending)

\* C10: an action sent when no hand is active, by a player who is not to act,
\* or by a folded or eliminated player is rejected with an error and changes
\* nothing, the player to act and the armed timer included; only the active,
\* non-folded player to act of an active hand has an action accepted.
C10_OutOfTurnRejected ==
    [][/\ ErrorsSent({"No active hand", "Not your turn", "Player is not active"}) # {}
            => UNCHANGED <<engineVars, timer, pending, startTimeouts>>
       /\ \A u \in Users : Accepted(u) =>
            /\ isHandActive
            /\ getPlayerAtPosition(currentPlayerPosition) = {u}
            /\ players[u].isActive /\ ~players[u].isFolded
      ]_vars

\* a player who is not to act was refused while the timer of the acting player
\* keeps running
C10_Witness ==
    /\ timer.on
    /\ \E e \in emitted : /\ e.ev = "game:error" /\ e.info = "Not your turn"
                          /\ e.userId # timer.userId
                          /\ getPlayerAtPosition(currentPlayerPosition) = {timer.userId}

\* ---- C11 ----
\* a turn is started by the step: game:turn:started is emitted
TurnStarts == \E e \in emitted' : e.ev = "game:turn:started"

\* the non-folded players that still have chips
WithChips(ps) == {u \in getActivePlayers(ps) : ps[u].stack > 0}

\* C11: whenever a turn is started, by startHand, advanceToNextPlayer or
\* advanceToNextStreet, the player to act is seated, not folded, not eliminated
\* and has chips left.
C11_TurnStartValid ==
    [][TurnStarts =>
         /\ timer'.on
         /\ getPlayerAtPosition(currentPlayerPosition') = {timer'.userId}
         /\ timer'.userId \in WithChips(players')
      ]_vars

\* ---- C12 ----
\* the step on which advanceToNextStreet finishes
StreetStarts == BagIn(StreetCont, pending) /\ ~BagIn(StreetCont, pending')

\* C12: when a street ends and fewer than two non-folded players have chips,
\* betting is skipped: no turn is started and no timer is armed.
C12_AllInSkipsBetting ==
    [][(StreetStarts /\ Cardinality(WithChips(players)) < 2) =>
         /\ ~TurnStarts
         /\ ~timer'.on
      ]_vars

\* ---- C15 ----
AcceptedMessage(type) == submitted'.type = type /\ submitted'.accepted

\* C15: an accepted Raise(to) has to >= currentBet + minRaise, where minRaise is
\* never below the big blind, and to - committedThisStreet <= stack.
C15_RaiseLegality ==
    [][AcceptedMessage("raise") =>
         LET u == submitted'.userId
             to == submitted'.amount
         IN /\ to >= currentBet + BIG_BLIND
            /\ to - players[u].currentBet <= players[u].stack
      ]_vars

\* ---- C16 ----
\* C16: during a hand no non-folded player has more chips in on the street than
\* currentBet.
C16_CurrentBetIsHighest ==
    isHandActive =>
        \A u \in getActivePlayers(players) : players[u].currentBet <= currentBet

\* ---- C19 ----
\* C19: a Call is accepted only when currentBet exceeds what the caller has in
\* on the street, and it commits min(currentBet - committedThisStreet, stack).
C19_CallLegality ==
    [][AcceptedMessage("call") =>
         LET u == submitted'.userId
             owed == currentBet - players[u].currentBet
         IN /\ owed > 0
            /\ players[u].stack - players'[u].stack = Min(owed, players[u].stack)
            /\ pot' - pot = Min(owed, players[u].stack)
      ]_vars

\* ---- C13 ----
\* the round-complete predicate as specified: every non-folded player is
\* all-in, or has acted with the current bet matched
RoundComplete(ps, cb) ==
    \A u \in getActivePlayers(ps) :
        ps[u].stack = 0 \/ (ps[u].hasActed /\ ps[u].currentBet = cb)

\* the step on which handlePlayerAction finishes after its await
ActResumes ==
    \E c \in BagToSet(pending) : c.k = "act" /\ CopiesIn(c, pending') < CopiesIn(c, pending)

ShowdownMade ==
    /\ Len(distributions') = Len(distributions) + 1
    /\ distributions'[Len(distributions')].how = "showdown"

\* the street is left for the next one, or for the showdown on the river
StreetLeft ==
    IF currentStreet = "river" THEN ShowdownMade
    ELSE currentStreet' = NextStreet(currentStreet) /\ BagIn(StreetCont, pending')

\* C13: after an accepted action that leaves two or more non-folded players, the
\* hand moves to the next street (the showdown on the river) exactly when every
\* non-folded player is all-in or has acted and matched currentBet; otherwise
\* the turn passes to another non-folded player on the same street.
C13_RoundCompletion ==
    [][(ActResumes /\ Cardinality(getActivePlayers(players)) >= 2) =>
         IF RoundComplete(players, currentBet)
         THEN StreetLeft
         ELSE /\ currentStreet' = currentStreet
              /\ distributions' = distributions
              /\ TurnStarts /\ timer'.on
              /\ currentPlayerPosition' # currentPlayerPosition
              /\ currentPlayerPosition' \in getActivePlayers(players)
      ]_vars

\* the flop was reached after a raise was called
C13_Witness ==
    /\ currentStreet = "flop" /\ BagIn(StreetCont, pending)
    /\ pot = 3 * 100
    /\ Cardinality(getActivePlayers(players)) = 3

\* ---- C14 ----
\* C14: the preflop street is not left before the big blind has acted: when the
\* hand leaves preflop with two or more players the big blind has folded, is
\* all-in, or has taken its turn.
C14_BigBlindOption ==
    [][(currentStreet = "preflop" /\ isHandActive /\ ActResumes
          /\ Cardinality(getActivePlayers(players)) >= 2
          /\ (currentStreet' # "preflop" \/ ShowdownMade)) =>
         \A u \in getPlayerAtPosition(bigBlindPosition) :
             players[u].isFolded \/ players[u].stack = 0 \/ players[u].hasActed
      ]_vars

\* both other players called the big blind and the big blind checked
C14_Witness ==
    /\ currentStreet = "flop" /\ BagIn(StreetCont, pending)
    /\ pot = 3 * BIG_BLIND
    /\ Ev("game:action:performed", ToRoom, bigBlindPosition, "check") \in emitted

\* ---- C18 ----
\* C18: an accepted Raise leaves hasActed false for every other non-folded
\* player with chips, and no street is left while such a player has not acted.
C18_RaiseReopens ==
    [][/\ AcceptedMessage("raise") =>
            \A v \in WithChips(players') \ {submitted'.userId} : ~players'[v].hasActed
       /\ (ActResumes /\ Cardinality(getActivePlayers(players)) >= 2
             /\ (currentStreet' # currentStreet \/ ShowdownMade)) =>
            \A v \in WithChips(players) : players[v].hasActed
      ]_vars

\* a player who had called must act again after the raise of another
C18_Witness ==
    \E u, v \in Users :
        /\ u # v
        /\ BagIn(ActCont(u, "raise"), pending)
        /\ v \in WithChips(players)
        /\ players[v].currentBet = BIG_BLIND /\ v # bigBlindPosition
        /\ ~players[v].hasActed

\* ---- C20 ----
FoldOutMade ==
    /\ Len(distributions') = Len(distributions) + 1
    /\ distributions'[Len(distributions')].how = "fold"

WinByFoldAnnounced ==
    CopiesIn(WinCont("fold"), pending') < CopiesIn(WinCont("fold"), pending)

\* C20: when all players but one have folded, the remaining player is paid the
\* whole pot, no hand is evaluated, and the winner record announced carries the
\* rank 'Win by fold' and no hole cards.
C20_FoldOut ==
    [][/\ (ActResumes /\ Cardinality(getActivePlayers(players)) = 1) => FoldOutMade
       /\ FoldOutMade =>
            \E w \in Users :
                /\ getActivePlayers(players) = {w}
                /\ players'[w].stack = players[w].stack + pot
                /\ \A u \in Users \ {w} : players'[u].stack = players[u].stack
                /\ distributions'[Len(distributions')].winners = <<w>>
                /\ handValue' = handValue
                /\ BagIn(WinCont("fold"), pending')
       /\ WinByFoldAnnounced =>
            \E e \in emitted' :
                /\ e.ev = "game:winner:determined" /\ e.to = ToRoom
                /\ e.info = "Win by fold" /\ e.n = 0
      ]_vars

\* scenario S1: seats 0 and 1 fold, seat 2 wins the blinds
C20_Witness ==
    /\ Stacks = (0 :> 1500 @@ 1 :> 1490 @@ 2 :> 1510)
    /\ \E d \in Dists : d.how = "fold" /\ d.pot = 30
    /\ WinnerDetermined("fold") \in emitted

\* ---- C17 ----
\* C17: an all-in that raises currentBet by less than the minimum raise, which is
\* never below the big blind, leaves hasActed set for the players who had acted.
C17_ShortAllInKeepsActed ==
    [][(/\ AcceptedMessage("all_in")
        /\ players'[submitted'.userId].currentBet > currentBet
        /\ players'[submitted'.userId].currentBet - currentBet < BIG_BLIND) =>
         \A v \in Users \ {submitted'.userId} :
             players[v].hasActed => players'[v].hasActed
      ]_vars

\* ---- C21 ----
\* a distribution is appended by the step
DistributionMade == Len(distributions') = Len(distributions) + 1

\* C21: a folded player stays folded until the next startHand, is not given a
\* turn, has no action accepted, and is awarded no chips.
C21_FoldPermanence ==
    [][\A u \in Users : players[u].isFolded =>
         /\ players'[u].isFolded \/ handNumber' = handNumber + 1
         /\ ~Accepted(u)
         /\ TurnStarts => timer'.userId # u \/ handNumber' = handNumber + 1
         /\ handNumber' = handNumber => players'[u].stack = players[u].stack
         /\ DistributionMade => distributions'[Len(distributions')].awarded[u] = 0
      ]_vars

\* a showdown between two players after the third folded and was refused a
\* later action
C21_Witness ==
    \E u \in Users, d \in Dists :
        /\ players[u].isFolded
        /\ d.how = "showdown" /\ d.awarded[u] = 0
        /\ handValue[u] = 0
        /\ players[u].stack < STARTING_STACK

\* ---- C29 ----
StreetOrder == <<"preflop", "flop", "turn", "river">>
BoardSizes == <<0, 3, 4, 5>>
StreetIndex(street) == CHOOSE i \in 1..4 : StreetOrder[i] = street

\* C29: the board has 0, 3, 4, 5 cards on preflop, flop, turn, river, and the
\* street only moves to the next one in that order, or back to preflop when a
\* hand starts.
C29_BoardByStreet ==
    /\ [](boardCards = BoardSizes[StreetIndex(currentStreet)])
    /\ [][currentStreet' # currentStreet =>
            \/ StreetIndex(currentStreet') = StreetIndex(currentStreet) + 1
            \/ currentStreet' = "preflop" /\ handNumber' = handNumber + 1
         ]_vars

\* a showdown on the river with five board cards
C29_Witness ==
    /\ currentStreet = "river" /\ boardCards = 5
    /\ \E d \in Dists : d.how = "showdown"

\* ---- C30 ----
\* C30: an accepted Check leaves the pot, currentBet and every player's stack
\* and street commitment as they were; it only marks the player as having acted.
C30_CheckFrame ==
    [][AcceptedMessage("check") =>
         /\ pot' = pot
         /\ currentBet' = currentBet
         /\ players' = [players EXCEPT ![submitted'.userId].hasActed = TRUE]
      ]_vars

\* a check on the flop by a player who had not acted on the street
C30_Witness ==
    /\ submitted.type = "check" /\ submitted.accepted
    /\ currentStreet = "flop"
    /\ players[submitted.userId].hasActed
    /\ \E v \in getActivePlayers(players) : ~players[v].hasActed

\* ---- C23 ----
\* the step on which determineWinner finishes and prepareNextHand runs
HandCompletes ==
    \E c \in BagToSet(pending) : c.k = "win" /\ CopiesIn(c, pending') < CopiesIn(c, pending)

\* a hand is started by the step
HandStarts == handNumber' = handNumber + 1

\* C23: a player without chips when a hand completes is marked eliminated, and
\* an eliminated player stays eliminated, is dealt no hole cards by startHand,
\* is given neither the button nor a blind for the next hand, and is given no
\* turn.
C23_EliminationPermanence ==
    [][/\ HandCompletes => \A u \in Users : players[u].stack = 0 => ~players'[u].isActive
       /\ \A u \in Users : ~players[u].isActive =>
            /\ ~players'[u].isActive
            /\ HandStarts => ~players'[u].holeCards
            /\ TurnStarts => timer'.userId # u
       /\ HandStarts =>
            \A u \in Users : ~players'[u].isActive =>
                u \notin {dealerPosition', smallBlindPosition', bigBlindPosition'}
      ]_vars

\* the second hand is played without the player eliminated in the first
C23_Witness ==
    /\ isHandActive /\ handNumber = 2 /\ timer.on
    /\ \E u \in Users :
         /\ ~players[u].isActive /\ players[u].stack = 0 /\ ~players[u].holeCards
         /\ u \notin {dealerPosition, smallBlindPosition, bigBlindPosition}

\* ---- C24 ----
HaveChips(ps) == {u \in Users : ps[u].stack > 0}

GameEnded == Ev("game:ended", ToRoom, 0, "")

\* C24: when a hand completes with fewer than two players holding chips,
\* game:ended is emitted and no startHand is scheduled, and no hand ever starts
\* with fewer than two such players; otherwise a startHand is scheduled, and a
\* scheduled startHand starts the next hand.
C24_GameEndOrNextHand ==
    /\ [][/\ HandCompletes =>
               IF Cardinality(HaveChips(players)) < 2
               THEN GameEnded \in emitted' /\ startTimeouts' = 0
               ELSE GameEnded \notin emitted' /\ startTimeouts' = startTimeouts + 1
          /\ HandStarts => Cardinality(HaveChips(players)) >= 2
         ]_vars
    /\ \A h \in 1..(MaxMatchHands - 1) :
          (startTimeouts > 0 /\ handNumber = h) ~> (handNumber = h + 1)

\* one player holds every chip and the game has ended
C24_Witness ==
    /\ GameEnded \in emitted
    /\ startTimeouts = 0
    /\ \E u \in Users : players[u].stack = Cardinality(Users) * STARTING_STACK

\* ---- C25 ----
\* seats are numbered 0..N-1 clockwise: the first seat of S after seat x
ClockwiseNext(S, x) ==
    LET N == Cardinality(Users)
        d == CHOOSE d \in 1..N :
                 /\ (x + d) % N \in S
                 /\ \A e \in 1..(d - 1) : (x + e) % N \notin S
    IN (x + d) % N

\* the players not eliminated
Live(ps) == {u \in Users : ps[u].isActive}

\* C25: when a hand completes and two or more players have chips, the button
\* moves to the next non-eliminated seat clockwise of the old dealer.
C25_DealerRotation ==
    [][(HandCompletes /\ Cardinality(HaveChips(players)) >= 2) =>
         dealerPosition' = ClockwiseNext(Live(players'), dealerPosition)
      ]_vars

\* the button skipped the seat of an eliminated player
C25_Witness ==
    /\ handNumber = 1 /\ ~isHandActive /\ startTimeouts = 1
    /\ \E u \in Users :
         /\ ~players[u].isActive
         /\ dealerPosition = (u + 1) % Cardinality(Users)

\* ---- C26 ----
\* C26: during a hand with three or more non-eliminated players the small
\* blind is the next non-eliminated seat clockwise of the dealer and the big
\* blind the next one of the small blind.
C26_BlindPositions ==
    (isHandActive /\ Cardinality(Live(players)) >= 3) =>
        /\ smallBlindPosition = ClockwiseNext(Live(players), dealerPosition)
        /\ bigBlindPosition = ClockwiseNext(Live(players), smallBlindPosition)

\* a second hand among three players, the button on the last seat
C26_Witness ==
    /\ isHandActive /\ handNumber = 2
    /\ Cardinality(Live(players)) = 3
    /\ dealerPosition = 2 /\ smallBlindPosition = 0 /\ bigBlindPosition = 1

\* ---- C27 ----
\* C27: during a hand with exactly two non-eliminated players the dealer is
\* the small blind and the other player is the big blind.
C27_HeadsUpBlinds ==
    (isHandActive /\ Cardinality(Live(players)) = 2) =>
        /\ smallBlindPosition = dealerPosition
        /\ bigBlindPosition \in Live(players) \ {dealerPosition}

\* ---- C22 ----
\* a suspended handler ends without any of the events of its continuation
StoreFailure ==
    /\ NumPending' = NumPending - 1
    /\ \A e \in emitted' : e.ev = "game:error"

\* a hand is active and no handler is running or waiting for a player
Stalled == isHandActive /\ NumPending = 0 /\ ~timer.on

\* C22: when a store write of a handler fails, game:error is emitted to the
\* room, and no action is accepted in the state the failure leaves behind.
C22_StoreFailureIsFatal ==
    [][/\ StoreFailure => \E e \in emitted' : e.ev = "game:error" /\ e.to = ToRoom
       /\ Stalled => \A u \in Users : ~Accepted(u)
      ]_vars

\* ---- C28 ----
\* every card held by a player, then the board, then the deck
RECURSIVE HoleCardsOf(_)
HoleCardsOf(order) ==
    IF order = <<>> THEN <<>> ELSE players[Head(order)].holeCards \o HoleCardsOf(Tail(order))

CardsInPlay == HoleCardsOf(SortAsc(Users)) \o boardCards \o deck

Range(s) == {s[i] : i \in 1..Len(s)}

\* the cards of a full deck: every rank in every suit, once
FullDeck == [rank : 1..DeckRanks, suit : 1..DeckSuits]

\* C28: during a hand the hole cards, the board and the deck hold every card of
\* the full deck exactly once: the shuffle is a permutation and no card is dealt
\* twice.
C28_DeckBijection ==
    handNumber > 0 =>
        /\ Len(CardsInPlay) = DeckRanks * DeckSuits
        /\ Range(CardsInPlay) = FullDeck
        /\ Cardinality(FullDeck) = DeckRanks * DeckSuits

\* the river of a second hand dealt from a deck that is not in createDeck order
C28_Witness ==
    /\ handNumber = 2 /\ currentStreet = "river"
    /\ Len(boardCards) = 5 /\ Len(deck) = DeckRanks * DeckSuits - 2 * Cardinality(Users) - 5
    /\ \A u \in Users : Len(players[u].holeCards) = 2
    /\ CardsInPlay # createDeck

\* ---- C31 ----
\* the message accepted by the step moves the player all-in: an all_in, or a
\* call or raise that asks for more chips than the player has
GoesAllIn ==
    /\ submitted'.accepted
    /\ LET u == submitted'.userId
       IN \/ submitted'.type = "all_in"
          \/ submitted'.type = "call" /\ currentBet - players[u].currentBet > players[u].stack
          \/ submitted'.type = "raise"
               /\ submitted'.amount - players[u].currentBet > players[u].stack

\* C31: after an accepted all-in, and after a call or raise coerced to all-in,
\* the stack of the acting player is 0 and the whole former stack is in the pot.
C31_AllInDepletion ==
    [][GoesAllIn =>
         LET u == submitted'.userId
         IN /\ players'[u].stack = 0
            /\ pot' = pot + players[u].stack
            /\ players'[u].currentBet = players[u].currentBet + players[u].stack
      ]_vars

\* a call for less than the bet faced, by a player who had chips
C31_Witness ==
    /\ submitted.type = "call" /\ submitted.accepted
    /\ players[submitted.userId].stack = 0
    /\ players[submitted.userId].currentBet < currentBet
    /\ players[submitted.userId].currentBet > BIG_BLIND

\* ---- C32 ----
\* the hole cards and the board of every player have been evaluated
Evaluated == \A u \in Users : handValue[u] # NotEvaluated

\* the hands a state of the evaluator holds: the best hand of every player and
\* the hand the board makes by itself
HandsInPlay == {handValue[u] : u \in Users} \cup {evaluate5CardHand(boardCards)}

\* the tiebreaker of a hand at position i, 0 past the end
Tiebreaker(hand, i) == IF i <= Len(hand.tiebreakers) THEN hand.tiebreakers[i] ELSE 0

\* hand a is below hand b: a lower category, or the same category and a lower
\* tiebreaker at the first position where the two differ
Precedes(a, b) ==
    \/ a.rank < b.rank
    \/ /\ a.rank = b.rank
       /\ \E i \in 1..5 :
            /\ \A j \in 1..(i - 1) : Tiebreaker(a, j) = Tiebreaker(b, j)
            /\ Tiebreaker(a, i) < Tiebreaker(b, i)

\* C32: compareHands is antisymmetric, is 0 on a hand and itself, and orders
\* the hands by category first and then by the tiebreakers lexicographically.
C32_CompareIsLexicographic ==
    Evaluated =>
        \A a, b \in HandsInPlay :
            /\ compareHands(a, b) = -compareHands(b, a)
            /\ compareHands(a, a) = 0
            /\ compareHands(a, b) \in {-1, 0, 1}
            /\ (compareHands(a, b) = -1) <=> Precedes(a, b)
            /\ (compareHands(a, b) = 1) <=> Precedes(b, a)

\* two players with the same category and the same first tiebreaker, told
\* apart by a later tiebreaker
C32_Witness ==
    /\ Evaluated
    /\ \E u, v \in Users :
         /\ handValue[u].rank = handValue[v].rank
         /\ handValue[u].tiebreakers[1] = handValue[v].tiebreakers[1]
         /\ compareHands(handValue[u], handValue[v]) = 1

\* ---- C33 ----
\* the players findWinners looks at
Showing == {u \in Users : ~players[u].isFolded /\ players[u].holeCards # <<>>}

FoundWinners == distributions # <<>> /\ distributions[1].how = "findWinners"

\* C33: findWinners returns, each once, the showing players no showing player
\* beats: every tied player is returned, no returned player is beaten, and the
\* result is not empty when somebody shows cards. handValue holds the
\* evaluateHand of every player.
C33_WinnersAreTheBest ==
    (FoundWinners /\ Evaluated) =>
        LET winnerIds == distributions[1].winners
            W == {winnerIds[i] : i \in 1..Len(winnerIds)}
        IN /\ Len(winnerIds) = Cardinality(W)
           /\ W \subseteq Showing
           /\ \A w \in W : \A v \in Showing : ~Precedes(handValue[w], handValue[v])
           /\ \A u \in Showing :
                (\A v \in Showing : ~Precedes(handValue[u], handValue[v])) => u \in W
           /\ Showing # {} => W # {}

\* two of three showing players tie and beat the third
C33_Witness ==
    /\ FoundWinners
    /\ Evaluated
    /\ Len(distributions[1].winners) = 2
    /\ Cardinality(Showing) = 3

\* ---- C34 ----
SevenCards(u) == players[u].holeCards \o boardCards

\* the five-card hands of a player that are A-2-3-4-5
WheelsOf(u) ==
    LET combinations == getCombinations(SevenCards(u), 5)
    IN {combinations[i] : i \in {i \in 1..Len(combinations) :
            {combinations[i][k].rank : k \in 1..5} = {"A", "2", "3", "4", "5"}}}

SixHighStraight == HandRank(STRAIGHT, "Straight", <<6>>)

\* C34: A-2-3-4-5 is a straight whose top value is 5, below the six-high
\* straight, and A-spades 2-diamonds on 3c 4c 5h 9d Kc evaluates to Straight [5].
C34_WheelIsFiveHigh ==
    Evaluated =>
        \A u \in Users :
            /\ \A c \in WheelsOf(u) :
                 /\ evaluate5CardHand(c).tiebreakers = <<5>>
                 /\ evaluate5CardHand(c).rank = IF isFlush(c) THEN STRAIGHT_FLUSH ELSE STRAIGHT
                 /\ ~isFlush(c) => compareHands(evaluate5CardHand(c), SixHighStraight) = -1
            /\ (/\ players[u].holeCards = <<Card("A", "s"), Card("2", "d")>>
                /\ boardCards = <<Card("3", "c"), Card("4", "c"), Card("5", "h"),
                                  Card("9", "d"), Card("K", "c")>>)
               => handValue[u] = HandRank(STRAIGHT, "Straight", <<5>>)

\* the hand of the example, beaten by a player who holds the six-high straight
C34_Witness ==
    /\ Evaluated
    /\ \E u, v \in Users :
         /\ players[u].holeCards = <<Card("A", "s"), Card("2", "d")>>
         /\ handValue[u] = HandRank(STRAIGHT, "Straight", <<5>>)
         /\ handValue[v] = SixHighStraight
         /\ compareHands(handValue[u], handValue[v]) = -1

\* ---- C35 ----
\* the values of the cards of one suit among the seven cards of a player
SuitValues(u, suit) ==
    {rankValue(SevenCards(u)[i].rank) : i \in {i \in 1..7 : SevenCards(u)[i].suit = suit}}

\* the n highest numbers of a set, highest first
RECURSIVE Highest(_, _)
Highest(S, n) ==
    IF n = 0 \/ S = {} THEN <<>>
    ELSE LET m == CHOOSE m \in S : \A x \in S : m >= x
         IN <<m>> \o Highest(S \ {m}, n - 1)

\* C35: a player with more than five cards of one suit whose best hand is a
\* Flush gets the five highest values of that suit, highest first.
C35_FlushTakesTopFive ==
    Evaluated =>
        \A u \in Users : \A suit \in {"c", "d", "h", "s"} :
            (Cardinality(SuitValues(u, suit)) > 5 /\ handValue[u].rank = FLUSH)
                => /\ handValue[u].name = "Flush"
                   /\ handValue[u].tiebreakers = Highest(SuitValues(u, suit), 5)

\* six clubs, a Flush, and the lowest club a hole card that is left out
C35_Witness ==
    /\ Evaluated
    /\ \E u \in Users :
         /\ Cardinality(SuitValues(u, "c")) = 6
         /\ handValue[u].rank = FLUSH
         /\ players[u].holeCards[2] = Card("2", "c")
         /\ \A i \in 1..5 : handValue[u].tiebreakers[i] # 2

\* ---- C36 ----
\* C36: while a hand is active and no handler is suspended, the turn timer of
\* the player to act is armed.
C36_TimerArmedWhileWaiting ==
    (isHandActive /\ NumPending = 0) => timer.on

\* ---- C37 ----
\* C37: the pot of a hand is distributed at most once, and at most one
\* startHand is scheduled at any time.
C37_CompletedOnce ==
    /\ Len(distributions) <= 1
    /\ startTimeouts <= 1

\* ---- C38 ----
\* C38: the expiry of a turn timer folds no player who is all-in.
C38_AllInNotTimedOut ==
    [][TimerExpires =>
         \A u \in getActivePlayers(players) :
             (isHandActive /\ players[u].stack = 0) => ~players'[u].isFolded
      ]_vars

\* ---- C39 ----
\* C39: no accepted action gives chips to the acting player or takes chips out
\* of the pot, and no stack is negative.
C39_NoNegativeCommit ==
    /\ [](\A u \in Users : players[u].stack >= 0)
    /\ [][submitted'.accepted =>
            /\ players'[submitted'.userId].stack <= players[submitted'.userId].stack
            /\ pot' >= pot
         ]_vars

\* ---- C40 ----
\* C40: at a showdown the amountWon recorded for every winner is the number of
\* chips the distribution added to that winner's stack, and the amounts of the
\* winners sum to the pot.
C40_AmountWonIsAwarded ==
    \A d \in Dists :
        d.how = "showdown" =>
            /\ \A w \in WinnersOf(d) : d.amountWon = d.awarded[w]
            /\ Len(d.winners) * d.amountWon = d.pot

====
